---- MODULE Spec2Model ----
(***************************************************************************)
(* Model of the chat relay server of chat-app/server.js: the socket.io     *)
(* handlers user_login, send_message, user_typing, user_stopped_typing and *)
(* disconnect, over the process-wide maps users and userSessions and the   *)
(* array messageHistory.                                                   *)
(*                                                                         *)
(* Socket ids are the naturals 1..MaxConns, handed out in order.  A        *)
(* display name is a sequence of one-character strings.  A payload is a    *)
(* record; a field the client left out is a field the record lacks.        *)
(* `now` is a logical clock that stands for Date: it advances by one with  *)
(* every handled event, and a message id is the clock value at creation    *)
(* (the random suffix of the id is not modelled).                          *)
(*                                                                         *)
(* A handler runs for any socket that was created, open or closed: the     *)
(* send_message handler is also run for a closed socket, which is the      *)
(* send that races with a disconnect.                                      *)
(*                                                                         *)
(* The second server of the repository (whatsapp-clone-chat) keeps one Map *)
(* of its own, waUsers; `variant` says which of the two servers runs.      *)
(* `inbox` is an observer: for each socket connected with ConnectObserved  *)
(* it keeps, in order, every event delivered to that socket.               *)
(*                                                                         *)
(* Spec       every handler, every payload shape, MaxTime events           *)
(* SpecJoin   joins with names of every kind (empty, blank, 30, 31 long)   *)
(* SpecReplay joins and well-formed sends, one event more than MaxTime     *)
(* SpecFill   one sender filling messageHistory past HistoryCap            *)
(* SpecOrder  watched connections, interleaved sends, MaxTime + 2 events   *)
(* SpecSession watched connections; joins, sends, disconnects, repeated    *)
(*            disconnects and sends from closed sockets, MaxTime + 1       *)
(* SpecWa     the whatsapp-clone server, every handler                     *)
(* SpecBoth   either server, chosen at the start                           *)
(***************************************************************************)
EXTENDS Integers, Sequences, FiniteSets, TLC

\* ------------------------------------------------------------- bounds
MaxConns == 3
MaxTime == 3

\* ---------------------------------------------------- program constants
HistoryCap == 100
ReplayLimit == 30
MaxNameLen == 30

VARIABLES
    sockets,        \* socket id -> "open" | "closed", for every socket created
    users,          \* Map: insertion-ordered sequence of [key, value]
    userSessions,   \* Map: insertion-ordered sequence of [key, value]
    messageHistory, \* array of message objects, oldest first
    now,            \* logical clock
    emitted,        \* what the last handler emitted, in emit order: [to, ev]
    last,           \* the last inbound event: [handler, conn, data, threw]
    routes,         \* observer: message id -> how the send that made it was routed
    inbox,          \* observer: watched socket id -> the events delivered to it
    variant,        \* which server runs: "chat-app" | "whatsapp-clone"
    waUsers         \* whatsapp-clone server: Map socket id -> username

vars == <<sockets, users, userSessions, messageHistory, now, emitted, last, routes,
          inbox, variant, waUsers>>

\* ------------------------------------------------------ JavaScript values
Undefined == "undefined"

Has(data, f) == f \in DOMAIN data

\* data.f, or undefined when the payload lacks the field
Field(data, f) == IF Has(data, f) THEN data[f] ELSE Undefined

\* JavaScript truthiness of a payload field: a name (sequence of characters),
\* a string, a socket id
TruthyName(data, f) == Has(data, f) /\ data[f] # <<>>

TruthyStr(data, f) == Has(data, f) /\ data[f] # ""

TruthyId(data, f) == Has(data, f) /\ data[f] # 0

IsSpace(ch) == ch \in {" ", "\t", "\n"}

RECURSIVE TrimStart(_)
TrimStart(s) ==
    IF s # <<>> /\ IsSpace(Head(s)) THEN TrimStart(Tail(s)) ELSE s

RECURSIVE TrimEnd(_)
TrimEnd(s) ==
    IF s # <<>> /\ IsSpace(s[Len(s)]) THEN TrimEnd(SubSeq(s, 1, Len(s) - 1)) ELSE s

\* String.prototype.trim
Trim(s) == TrimEnd(TrimStart(s))

\* a faulty variant, slice(0, n): C14 must tell it apart
SliceFirst(a, n) == IF Len(a) <= n THEN a ELSE SubSeq(a, 1, n)

\* Array.prototype.slice(-n)
SliceLast(a, n) == IF Len(a) <= n THEN a ELSE SubSeq(a, Len(a) - n + 1, Len(a))

\* ------------------------------------------------------------------- Map
\* A Map is the sequence of its entries [key, value] in insertion order.
MapKeys(m) == {m[i].key : i \in DOMAIN m}

MapHas(m, k) == k \in MapKeys(m)

MapIndex(m, k) == CHOOSE i \in DOMAIN m : m[i].key = k

MapGet(m, k) == m[MapIndex(m, k)].value

\* Map.prototype.set: an existing key keeps its place
\* a faulty variant, an array push in place of Map.set: C13 must tell it apart
MapSetAppend(m, k, v) == Append(m, [key |-> k, value |-> v])

MapSet(m, k, v) ==
    IF MapHas(m, k)
    THEN [m EXCEPT ![MapIndex(m, k)] = [key |-> k, value |-> v]]
    ELSE Append(m, [key |-> k, value |-> v])

MapDelete(m, k) ==
    IF MapHas(m, k)
    THEN SubSeq(m, 1, MapIndex(m, k) - 1) \o SubSeq(m, MapIndex(m, k) + 1, Len(m))
    ELSE m

MapSize(m) == Len(m)

\* Array.from(m.values())
MapValues(m) == [i \in DOMAIN m |-> m[i].value]

\* --------------------------------------------------------------- sockets
Created == DOMAIN sockets

Open == {s \in Created : sockets[s] = "open"}

\* io.emit: every connected socket of the namespace
IoEmit(ev) == [to |-> Open, ev |-> ev]

\* socket.emit
SocketEmit(c, ev) == [to |-> {c}, ev |-> ev]

\* a faulty variant, the sender included: C16 must tell it apart
BroadcastEmitToAll(c, ev) == [to |-> Open, ev |-> ev]

\* socket.broadcast.emit: every connected socket but this one
BroadcastEmit(c, ev) == [to |-> Open \ {c}, ev |-> ev]

\* io.to(room).emit, the room of a socket id
IoToEmit(room, ev) == [to |-> Open \cap {room}, ev |-> ev]

ErrorEv(text) == [event |-> "error", message |-> text]

\* the events of `out` addressed to socket c, in emit order
RECURSIVE EventsFor(_, _)
EventsFor(out, c) ==
    IF out = <<>> THEN <<>>
    ELSE (IF c \in Head(out).to THEN <<Head(out).ev>> ELSE <<>>)
         \o EventsFor(Tail(out), c)

\* the inboxes after `out` went out: a watched socket that is still connected
\* gets the events addressed to it, in emit order
Deliver(box, out, socks) ==
    [c \in DOMAIN box |->
        IF socks[c] = "open" THEN box[c] \o EventsFor(out, c) ELSE box[c]]

\* ------------------------------------------------------------ connection
Connect ==
    /\ Cardinality(Created) < MaxConns
    /\ sockets' = [s \in Created \cup {Cardinality(Created) + 1} |->
                      IF s \in Created THEN sockets[s] ELSE "open"]
    /\ emitted' = <<>>
    /\ last' = [handler |-> "connection", conn |-> Cardinality(Created) + 1,
                data |-> [none |-> TRUE], threw |-> FALSE]
    /\ UNCHANGED <<users, userSessions, messageHistory, now, routes>>
    /\ UNCHANGED <<inbox, variant, waUsers>>

\* a connection whose deliveries the observer records from now on; the
\* record starts with a note of the users registered at that moment
ConnectObserved ==
    /\ Cardinality(Created) < MaxConns
    /\ sockets' = [s \in Created \cup {Cardinality(Created) + 1} |->
                      IF s \in Created THEN sockets[s] ELSE "open"]
    /\ inbox' = [s \in DOMAIN inbox \cup {Cardinality(Created) + 1} |->
                    IF s \in DOMAIN inbox THEN inbox[s]
                    ELSE <<[event |-> "connection", registered |-> MapKeys(users)]>>]
    /\ emitted' = <<>>
    /\ last' = [handler |-> "connection", conn |-> Cardinality(Created) + 1,
                data |-> [none |-> TRUE], threw |-> FALSE]
    /\ UNCHANGED <<users, userSessions, messageHistory, now, routes>>
    /\ UNCHANGED <<variant, waUsers>>

\* ------------------------------------------------------------ user_login
LoginRejected(data) == ~TruthyName(data, "username") \/ ~TruthyStr(data, "publicKey")

NewUser(c, data) ==
    [id |-> c, username |-> Trim(data.username), publicKey |-> data.publicKey,
     socketId |-> c, connectedAt |-> now]

\* Array.from(users.values()).map(u => ({id, username, publicKey}))
OnlineUsersList(m) ==
    [i \in DOMAIN MapValues(m) |->
        [id |-> MapValues(m)[i].id, username |-> MapValues(m)[i].username,
         publicKey |-> MapValues(m)[i].publicKey]]

\* a faulty variant, the error sent with io.emit: C11 must tell it apart
LoginErrorToAll(c) == IoEmit(ErrorEv("Username and public key required"))

\* lines 63-66: socket.emit('error', ...)
LoginError(c) == SocketEmit(c, ErrorEv("Username and public key required"))

\* a faulty variant, socket.emit in place of io.emit: C22 must tell it apart
JoinAnnouncementToSelf(c, data, size) ==
    SocketEmit(c, [event |-> "user_connected", userId |-> c,
                   username |-> data.username, timestamp |-> now,
                   totalUsers |-> size])

\* a faulty variant, socket.broadcast.emit in place of io.emit: C12 must tell
\* it apart
JoinAnnouncementToOthers(c, data, size) ==
    BroadcastEmit(c, [event |-> "user_connected", userId |-> c,
                      username |-> data.username, timestamp |-> now,
                      totalUsers |-> size])

\* lines 83-88: io.emit('user_connected', ...), the username as it came in
JoinAnnouncement(c, data, size) ==
    IoEmit([event |-> "user_connected", userId |-> c,
            username |-> data.username, timestamp |-> now,
            totalUsers |-> size])

\* a faulty variant, the two socket.emit left out of the handler's run: C23
\* must tell it apart
JoinSnapshotNone(c, m) == <<>>

\* lines 90-102: online_users, then message_history, to the joining socket
JoinSnapshot(c, m) ==
    << SocketEmit(c, [event |-> "online_users", users |-> OnlineUsersList(m)]),
       SocketEmit(c, [event |-> "message_history",
                      messages |-> SliceLast(messageHistory, ReplayLimit)]) >>

UserLogin(c, data) ==
    /\ c \in Open
    /\ now' = now + 1
    /\ last' = [handler |-> "user_login", conn |-> c, data |-> data, threw |-> FALSE]
    /\ UNCHANGED <<routes, variant, waUsers>>
    /\ IF LoginRejected(data)
       THEN /\ emitted' = <<LoginError(c)>>
            /\ UNCHANGED <<sockets, users, userSessions, messageHistory>>
       ELSE /\ users' = MapSet(users, c, NewUser(c, data))
            /\ userSessions' = MapSet(userSessions, c, c)
            /\ emitted' =
                 <<JoinAnnouncement(c, data, MapSize(users'))>>
                 \o JoinSnapshot(c, users')
            /\ UNCHANGED <<sockets, messageHistory>>
    /\ inbox' = Deliver(inbox, emitted', sockets')

\* ---------------------------------------------------------- send_message
SenderName(data, sender) ==
    IF TruthyName(data, "senderUsername") THEN data.senderUsername ELSE sender.username

MessageObj(senderId, sender, data) ==
    [id |-> now,
     sender |-> [id |-> senderId, username |-> SenderName(data, sender)],
     encryptedMessage |-> Field(data, "encryptedMessage"),
     timestamp |-> now,
     type |-> "direct"]

\* a faulty variant, unshift in place of push: C20 must tell it apart
PushHistoryFront(h, m) ==
    IF Len(h) + 1 > HistoryCap THEN SubSeq(<<m>> \o h, 1, HistoryCap) ELSE <<m>> \o h

\* messageHistory.push(m); if (length > 100) shift()
PushHistory(h, m) ==
    IF Len(h) + 1 > HistoryCap THEN Tail(Append(h, m)) ELSE Append(h, m)

\* a faulty variant, an id made anew for the acknowledgement: C24 must tell
\* it apart
MessageSentEvNewId(m) ==
    [event |-> "message_sent", messageId |-> m.id + 1, timestamp |-> m.timestamp]

\* lines 143-146 and 153-156
MessageSentEv(m) == [event |-> "message_sent", messageId |-> m.id, timestamp |-> m.timestamp]

ReceiveEv(m) == [event |-> "receive_message", msg |-> m]

Dispatch(c, data, m) ==
    IF TruthyId(data, "recipientId")
    THEN IF MapHas(users, data.recipientId)
         THEN << IoToEmit(MapGet(users, data.recipientId).socketId, ReceiveEv(m)),
                 SocketEmit(c, MessageSentEv(m)) >>
         ELSE << SocketEmit(c, ErrorEv("Recipient not found")) >>
    ELSE << IoEmit(ReceiveEv(m)), SocketEmit(c, MessageSentEv(m)) >>

\* encryptedMessage.substring(0, 20) in the closing console.log throws a TypeError
\* when the payload had no encryptedMessage
LogThrows(data) == ~Has(data, "encryptedMessage")

\* lines 108-119: the error the sender lookup ends in, "" when it finds the sender
SenderError(c) ==
    IF ~MapHas(userSessions, c) THEN "User not authenticated"
    ELSE IF ~MapHas(users, MapGet(userSessions, c)) THEN "Sender not found"
    ELSE ""

\* a faulty variant, the error sent with io.emit: C3 must tell it apart
SendRejectedToAll(c, text) ==
    /\ emitted' = <<IoEmit(ErrorEv(text))>>
    /\ UNCHANGED <<messageHistory, routes>>

\* lines 110-119: socket.emit('error') and return
SendRejected(c, text) ==
    /\ emitted' = <<SocketEmit(c, ErrorEv(text))>>
    /\ UNCHANGED <<messageHistory, routes>>

\* what the observer notes of a send: the recipient asked for (0: none),
\* whether receive_message was emitted, and whether the payload had a text
RouteOf(data) ==
    [recipientId |-> IF TruthyId(data, "recipientId") THEN data.recipientId ELSE 0,
     delivered |-> ~TruthyId(data, "recipientId") \/ MapHas(users, data.recipientId),
     hasText |-> Has(data, "encryptedMessage")]

SendAccepted(c, data) ==
    LET senderId == MapGet(userSessions, c)
        m == MessageObj(senderId, MapGet(users, senderId), data)
    IN  /\ messageHistory' = PushHistory(messageHistory, m)
        /\ emitted' = Dispatch(c, data, m)
        /\ routes' = [i \in DOMAIN routes \cup {m.id} |->
                         IF i = m.id THEN RouteOf(data) ELSE routes[i]]

SendMessage(c, data) ==
    /\ c \in Created
    /\ now' = now + 1
    /\ UNCHANGED <<sockets, users, userSessions, variant, waUsers>>
    /\ IF SenderError(c) # ""
       THEN /\ SendRejected(c, SenderError(c))
            /\ last' = [handler |-> "send_message", conn |-> c, data |-> data,
                        threw |-> FALSE]
       ELSE /\ SendAccepted(c, data)
            /\ last' = [handler |-> "send_message", conn |-> c, data |-> data,
                        threw |-> LogThrows(data)]
    /\ inbox' = Deliver(inbox, emitted', sockets')

\* ---------------------------------------------------------------- typing
UserTyping(c) ==
    /\ c \in Open
    /\ now' = now + 1
    /\ last' = [handler |-> "user_typing", conn |-> c, data |-> [none |-> TRUE],
                threw |-> FALSE]
    /\ emitted' =
         IF MapHas(userSessions, c)
         THEN << BroadcastEmit(c, [event |-> "user_typing",
                                   userId |-> MapGet(userSessions, c),
                                   username |-> MapGet(users, MapGet(userSessions, c)).username]) >>
         ELSE <<>>
    /\ UNCHANGED <<sockets, users, userSessions, messageHistory, routes>>
    /\ inbox' = Deliver(inbox, emitted', sockets')
    /\ UNCHANGED <<variant, waUsers>>

UserStoppedTyping(c) ==
    /\ c \in Open
    /\ now' = now + 1
    /\ last' = [handler |-> "user_stopped_typing", conn |-> c, data |-> [none |-> TRUE],
                threw |-> FALSE]
    /\ emitted' =
         IF MapHas(userSessions, c)
         THEN << BroadcastEmit(c, [event |-> "user_stopped_typing",
                                   userId |-> MapGet(userSessions, c)]) >>
         ELSE <<>>
    /\ UNCHANGED <<sockets, users, userSessions, messageHistory, routes>>
    /\ inbox' = Deliver(inbox, emitted', sockets')
    /\ UNCHANGED <<variant, waUsers>>

\* ------------------------------------------------------------ disconnect
\* socket.io removes the socket from the namespace before it fires the
\* disconnect event, so io.emit in the handler reaches the remaining sockets.
\* a faulty variant, the delete forgotten: C8 must tell it apart
UnregisterUserNoop(userId) == users

\* line 190
UnregisterUser(userId) == MapDelete(users, userId)

\* a faulty variant, the delete of the session forgotten: C21 must tell it
\* apart
ForgetSessionNoop(c) == userSessions

\* line 198
ForgetSession(c) == MapDelete(userSessions, c)

\* lines 184-202, run for socket c once socket.io has taken it out of the
\* namespace
DisconnectHandler(c) ==
    /\ now' = now + 1
    /\ last' = [handler |-> "disconnect", conn |-> c, data |-> [none |-> TRUE],
                threw |-> FALSE]
    /\ IF MapHas(userSessions, c)
       THEN LET userId == MapGet(userSessions, c)
            IN  /\ userSessions' = ForgetSession(c)
                /\ IF MapHas(users, userId)
                   THEN /\ users' = UnregisterUser(userId)
                        /\ emitted' =
                             << [to |-> Open \ {c},
                                 ev |-> [event |-> "user_disconnected", userId |-> userId,
                                         username |-> MapGet(users, userId).username,
                                         timestamp |-> now,
                                         totalUsers |-> MapSize(users')]] >>
                   ELSE /\ emitted' = <<>>
                        /\ UNCHANGED users
       ELSE /\ emitted' = <<>>
            /\ UNCHANGED <<users, userSessions>>
    /\ UNCHANGED <<messageHistory, routes>>
    /\ inbox' = Deliver(inbox, emitted', sockets')
    /\ UNCHANGED <<variant, waUsers>>

Disconnect(c) ==
    /\ c \in Open
    /\ sockets' = [sockets EXCEPT ![c] = "closed"]
    /\ DisconnectHandler(c)

\* the disconnect handler fired a second time for a socket that is closed
DisconnectAgain(c) ==
    /\ c \in Created \ Open
    /\ UNCHANGED sockets
    /\ DisconnectHandler(c)

\* ------------------------------------------- the whatsapp-clone server
\* users.get(socket.id) as a record: without the field when it is undefined
WaGet(c) == IF MapHas(waUsers, c) THEN [username |-> MapGet(waUsers, c)] ELSE <<>>

\* a faulty variant, the test of the username forgotten: C15 must tell it
\* apart
WaNameKnownAlways(c) == TRUE

\* if (username)
WaNameKnown(c) == TruthyName(WaGet(c), "username")

WaFrame ==
    /\ now' = now + 1
    /\ inbox' = Deliver(inbox, emitted', sockets')
    /\ UNCHANGED <<users, userSessions, messageHistory, routes, variant>>

WaJoin(c, username) ==
    /\ c \in Open
    /\ last' = [handler |-> "join", conn |-> c, data |-> [username |-> username],
                threw |-> FALSE]
    /\ waUsers' = MapSet(waUsers, c, username)
    /\ emitted' =
         << BroadcastEmit(c, [event |-> "user_joined", username |-> username,
                              message |-> <<username, " has joined the chat">>]),
            IoEmit([event |-> "user_count", count |-> MapSize(waUsers')]) >>
    /\ UNCHANGED sockets
    /\ WaFrame

WaSendEncryptedMessage(c, data) ==
    /\ c \in Open
    /\ last' = [handler |-> "send_encrypted_message", conn |-> c, data |-> data,
                threw |-> FALSE]
    /\ emitted' =
         << IoEmit([event |-> "receive_encrypted_message", timestamp |-> now]
                   @@ WaGet(c) @@ data) >>
    /\ UNCHANGED <<sockets, waUsers>>
    /\ WaFrame

WaDisconnect(c) ==
    /\ c \in Open
    /\ sockets' = [sockets EXCEPT ![c] = "closed"]
    /\ last' = [handler |-> "disconnect", conn |-> c, data |-> [none |-> TRUE],
                threw |-> FALSE]
    /\ IF WaNameKnown(c)
       THEN /\ waUsers' = MapDelete(waUsers, c)
            /\ emitted' =
                 << [to |-> Open \ {c},
                     ev |-> [event |-> "user_left",
                             message |-> <<Field(WaGet(c), "username"),
                                           " has left the chat">>] @@ WaGet(c)],
                    [to |-> Open \ {c},
                     ev |-> [event |-> "user_count", count |-> MapSize(waUsers')]] >>
       ELSE /\ emitted' = <<>>
            /\ UNCHANGED waUsers
    /\ WaFrame

WaTyping(c) ==
    /\ c \in Open
    /\ last' = [handler |-> "typing", conn |-> c, data |-> [none |-> TRUE],
                threw |-> FALSE]
    /\ emitted' =
         IF WaNameKnown(c)
         THEN << BroadcastEmit(c, [event |-> "user_typing"] @@ WaGet(c)) >>
         ELSE <<>>
    /\ UNCHANGED <<sockets, waUsers>>
    /\ WaFrame

WaStopTyping(c) ==
    /\ c \in Open
    /\ last' = [handler |-> "stop_typing", conn |-> c, data |-> [none |-> TRUE],
                threw |-> FALSE]
    /\ emitted' = << BroadcastEmit(c, [event |-> "user_stop_typing"]) >>
    /\ UNCHANGED <<sockets, waUsers>>
    /\ WaFrame

\* ---------------------------------------------------------------- inputs
Name_al == <<"a", "l">>
Name_bo == <<" ", "b", "o", " ">>
Name_zed == <<"z">>

LoginInputs ==
    { [username |-> Name_al, publicKey |-> "pk"],
      [username |-> Name_bo, publicKey |-> "pk"],
      [username |-> Name_al] }

SendInputs ==
    UNION { UNION { { em @@ rc @@ su :
                su \in {<<>>, [senderUsername |-> Name_zed]} } :
                rc \in {<<>>} \cup {[recipientId |-> r] : r \in 1..MaxConns} } :
                em \in {<<>>, [encryptedMessage |-> "m"]} }

Init ==
    /\ sockets = <<>>
    /\ users = <<>>
    /\ userSessions = <<>>
    /\ messageHistory = <<>>
    /\ now = 0
    /\ emitted = <<>>
    /\ last = [handler |-> "none", conn |-> 0, data |-> [none |-> TRUE], threw |-> FALSE]
    /\ routes = <<>>
    /\ inbox = <<>>
    /\ variant = "chat-app"
    /\ waUsers = <<>>

WithinTime == now < MaxTime

Next ==
    \/ Connect
    \/ WithinTime /\ \E c \in 1..MaxConns : \E data \in LoginInputs : UserLogin(c, data)
    \/ WithinTime /\ \E c \in 1..MaxConns : \E data \in SendInputs : SendMessage(c, data)
    \/ WithinTime /\ \E c \in 1..MaxConns : UserTyping(c)
    \/ WithinTime /\ \E c \in 1..MaxConns : UserStoppedTyping(c)
    \/ WithinTime /\ \E c \in 1..MaxConns : Disconnect(c)

Spec == Init /\ [][Next]_vars

\* ------------------------------------------------- joins with many names
RECURSIVE Repeat(_, _)
Repeat(ch, n) == IF n = 0 THEN <<>> ELSE <<ch>> \o Repeat(ch, n - 1)

JoinNames ==
    { <<>>, <<" ", " ">>, <<"a">>, <<" ", "a", " ">>,
      Repeat("a", MaxNameLen), <<" ">> \o Repeat("a", MaxNameLen) \o <<" ">>,
      Repeat("a", MaxNameLen + 1) }

JoinInputs == {[username |-> n, publicKey |-> "pk"] : n \in JoinNames}

NextJoin ==
    \/ Connect
    \/ WithinTime /\ \E c \in 1..MaxConns : \E data \in JoinInputs : UserLogin(c, data)
    \/ WithinTime /\ \E c \in 1..MaxConns : Disconnect(c)

SpecJoin == Init /\ [][NextJoin]_vars

\* ------------------------------------- a direct message and a later join
\* One more event than MaxTime: two joins, a direct message, a third join.
ReplayLogins == {[username |-> Name_al, publicKey |-> "pk"]}

ReplaySends ==
    {[encryptedMessage |-> "m"]}
    \cup {[encryptedMessage |-> "m", recipientId |-> r] : r \in 1..MaxConns}

WithinReplayTime == now < MaxTime + 1

NextReplay ==
    \/ Connect
    \/ WithinReplayTime
       /\ \E c \in 1..MaxConns : \E data \in ReplayLogins : UserLogin(c, data)
    \/ WithinReplayTime
       /\ \E c \in 1..MaxConns : \E data \in ReplaySends : SendMessage(c, data)

SpecReplay == Init /\ [][NextReplay]_vars

\* ------------------------------------- sends interleaved, inboxes watched
\* Every connection is watched from its start, joins at most once, and once
\* it has joined sends broadcast messages and direct messages to registered
\* users.  Two events more than MaxTime: two joins and three sends.
OrderSends ==
    {[encryptedMessage |-> "m"]}
    \cup {[encryptedMessage |-> "m", recipientId |-> r] : r \in MapKeys(users)}

WithinOrderTime == now < MaxTime + 2

NextOrder ==
    \/ ConnectObserved
    \/ WithinOrderTime
       /\ \E c \in 1..MaxConns : \E data \in ReplayLogins :
             ~MapHas(users, c) /\ UserLogin(c, data)
    \/ WithinOrderTime
       /\ \E c \in 1..MaxConns : \E data \in OrderSends :
             MapHas(users, c) /\ SendMessage(c, data)

SpecOrder == Init /\ [][NextOrder]_vars

\* ------------------------------- sessions from join to leave, watched
\* Every connection is watched from its start; joins, sends (also from a
\* closed socket: the send that races with the disconnect), disconnects and
\* repeated disconnects interleave.  One event more than MaxTime.
NextSession ==
    \/ ConnectObserved
    \/ WithinReplayTime
       /\ \E c \in 1..MaxConns : \E data \in ReplayLogins : UserLogin(c, data)
    \/ WithinReplayTime
       /\ \E c \in 1..MaxConns : \E data \in OrderSends : SendMessage(c, data)
    \/ WithinReplayTime /\ \E c \in 1..MaxConns : Disconnect(c)
    \/ WithinReplayTime /\ \E c \in 1..MaxConns : DisconnectAgain(c)

SpecSession == Init /\ [][NextSession]_vars

\* ------------------------------------------------------ either server
WaJoinNames == {Name_al, Name_bo, <<>>}

WaSendInputs == {[encryptedMessage |-> "m"], <<>>}

NextWa ==
    \/ Connect
    \/ WithinTime /\ \E c \in 1..MaxConns : \E n \in WaJoinNames : WaJoin(c, n)
    \/ WithinTime
       /\ \E c \in 1..MaxConns : \E data \in WaSendInputs : WaSendEncryptedMessage(c, data)
    \/ WithinTime /\ \E c \in 1..MaxConns : WaTyping(c)
    \/ WithinTime /\ \E c \in 1..MaxConns : WaStopTyping(c)
    \/ WithinTime /\ \E c \in 1..MaxConns : WaDisconnect(c)

InitWa ==
    /\ sockets = <<>>
    /\ users = <<>>
    /\ userSessions = <<>>
    /\ messageHistory = <<>>
    /\ now = 0
    /\ emitted = <<>>
    /\ last = [handler |-> "none", conn |-> 0, data |-> [none |-> TRUE], threw |-> FALSE]
    /\ routes = <<>>
    /\ inbox = <<>>
    /\ variant = "whatsapp-clone"
    /\ waUsers = <<>>

SpecWa == InitWa /\ [][NextWa]_vars

InitBoth ==
    /\ sockets = <<>>
    /\ users = <<>>
    /\ userSessions = <<>>
    /\ messageHistory = <<>>
    /\ now = 0
    /\ emitted = <<>>
    /\ last = [handler |-> "none", conn |-> 0, data |-> [none |-> TRUE], threw |-> FALSE]
    /\ routes = <<>>
    /\ inbox = <<>>
    /\ variant \in {"chat-app", "whatsapp-clone"}
    /\ waUsers = <<>>

NextBoth ==
    \/ variant = "chat-app" /\ Next
    \/ variant = "whatsapp-clone" /\ NextWa

SpecBoth == InitBoth /\ [][NextBoth]_vars

\* ------------------------------------------- filling the history past 100
\* Socket 1 joins and sends one message after another; socket 2 joins at any
\* moment.  Long enough for messageHistory to reach HistoryCap and evict.
FillLogin == [username |-> Name_al, publicKey |-> "pk"]

FillSend == [encryptedMessage |-> "m"]

FillTime == HistoryCap + 3

NextFill ==
    \/ Connect
    \/ now < FillTime
       /\ \E c \in 1..2 : ~MapHas(users, c) /\ UserLogin(c, FillLogin)
    \/ now < FillTime /\ MapHas(users, 1) /\ SendMessage(1, FillSend)

SpecFill == Init /\ [][NextFill]_vars

\* ------------------------------------------------------------ properties
OpenIn(s) == {x \in DOMAIN s : s[x] = "open"}

\* one error event, to connection c alone
OnlyErrorTo(out, c) ==
    /\ Len(out) = 1
    /\ out[1].to = {c}
    /\ out[1].ev.event = "error"

\* the last event was a send_message with a payload text from a registered sender
LastSendFromUser ==
    /\ last.handler = "send_message"
    /\ MapHas(users, last.conn)
    /\ Has(last.data, "encryptedMessage")

\* C1: a send_message (with a payload text) from a registered sender whose
\* recipientId is no key of users ends in the error 'Recipient not found' to
\* the sender and leaves messageHistory as it was.
C1_UnknownRecipientLeavesHistory ==
    [][ ( /\ last'.handler = "send_message"
          /\ MapHas(users, last'.conn)
          /\ Has(last'.data, "encryptedMessage")
          /\ TruthyId(last'.data, "recipientId")
          /\ ~MapHas(users, last'.data.recipientId) )
        => ( /\ emitted' = <<SocketEmit(last'.conn, ErrorEv("Recipient not found"))>>
             /\ messageHistory' = messageHistory ) ]_vars

\* C2: a message (with a payload text) sent to a recipientId that resolves to
\* a registered user other than the sender goes to that recipient, with
\* message_sent to the sender, and no connection other than sender and
\* recipient ever gets it, live or in a message_history replay.
C2_DirectOnlyToRecipient ==
    /\ ( LastSendFromUser /\ TruthyId(last.data, "recipientId")
         /\ MapHas(users, last.data.recipientId) )
       => ( /\ Len(emitted) = 2
            /\ emitted[1].ev.event = "receive_message"
            /\ emitted[1].to = {last.data.recipientId}
            /\ emitted[2].ev.event = "message_sent"
            /\ emitted[2].to = {last.conn} )
    /\ \A i \in DOMAIN emitted : \A c \in emitted[i].to :
         /\ emitted[i].ev.event = "receive_message"
            => ( routes[emitted[i].ev.msg.id].recipientId # 0
                 => c = routes[emitted[i].ev.msg.id].recipientId )
         /\ emitted[i].ev.event = "message_history"
            => \A k \in DOMAIN emitted[i].ev.messages :
                 LET m == emitted[i].ev.messages[k]
                 IN  ( /\ routes[m.id].hasText
                       /\ routes[m.id].delivered
                       /\ routes[m.id].recipientId \notin {0, m.sender.id} )
                     => c \in {m.sender.id, routes[m.id].recipientId}

\* C3: a send_message from a connection with no registered user (never joined,
\* or disconnected) ends in one error event to that connection alone, appends
\* nothing to messageHistory and emits no receive_message.
C3_UnregisteredSenderRejected ==
    [][ (last'.handler = "send_message" /\ ~MapHas(users, last'.conn))
        => ( /\ OnlyErrorTo(emitted', last'.conn)
             /\ messageHistory' = messageHistory ) ]_vars

C3_Witness ==
    /\ last.handler = "send_message"
    /\ sockets[last.conn] = "open"
    /\ ~MapHas(users, last.conn)
    /\ OnlyErrorTo(emitted, last.conn)
    /\ MapSize(users) = 1
    /\ Len(messageHistory) = 1

Delivered(id) == id \in DOMAIN routes /\ routes[id].delivered

\* the ids of the messages whose send was routed to its target, in send order
RoutedIds == SelectSeq([i \in 1..now |-> i - 1], Delivered)

\* C4: messageHistory never holds more than 100 messages and (every send so
\* far having had a payload text) is always the most recent (up to 100)
\* successfully routed messages, in append order.
C4_HistoryIsRecentRouted ==
    /\ Len(messageHistory) <= HistoryCap
    /\ (\A id \in DOMAIN routes : routes[id].hasText)
       => [i \in DOMAIN messageHistory |-> messageHistory[i].id]
            = SliceLast(RoutedIds, HistoryCap)

\* The part of C4 about the bound alone, under SpecFill: messageHistory never
\* holds more than 100 messages, it is always the most recent (up to 100)
\* messages created, in creation order, and a send at 100 drops the oldest.
CreatedIds == SelectSeq([i \in 1..now |-> i - 1], LAMBDA id : id \in DOMAIN routes)

HistoryIsRecentCreated ==
    /\ Len(messageHistory) <= HistoryCap
    /\ [i \in DOMAIN messageHistory |-> messageHistory[i].id]
         = SliceLast(CreatedIds, HistoryCap)

HistoryEvictsOldest ==
    [][ (last'.handler = "send_message" /\ MapHas(users, last'.conn)
         /\ Len(messageHistory) = HistoryCap)
        => ( /\ Len(messageHistory') = HistoryCap
             /\ SubSeq(messageHistory', 1, HistoryCap - 1) = Tail(messageHistory)
             /\ messageHistory'[HistoryCap].id = now ) ]_vars

HistoryEvicted ==
    /\ Len(messageHistory) = HistoryCap
    /\ Len(CreatedIds) = HistoryCap + 2
    /\ messageHistory[1].id = CreatedIds[3]

\* C5: a user_login on a connection that already has a User is rejected: the
\* User record and the registry are unchanged and no user_connected is emitted.
C5_SecondJoinRejected ==
    [][ (last'.handler = "user_login" /\ MapHas(users, last'.conn))
        => ( /\ users' = users
             /\ MapSize(users') = MapSize(users)
             /\ \A i \in DOMAIN emitted' : emitted'[i].ev.event # "user_connected" ) ]_vars

NameOk(data) ==
    /\ Has(data, "username")
    /\ Len(Trim(data.username)) >= 1
    /\ Len(Trim(data.username)) <= MaxNameLen

\* C6: a join is accepted if and only if the trimmed name has 1 to 30
\* characters; a rejected join gets an error and creates no User, an accepted
\* one stores the trimmed name for that connection.
C6_JoinIffValidName ==
    [][ last'.handler = "user_login"
        => IF NameOk(last'.data)
           THEN /\ MapHas(users', last'.conn)
                /\ MapGet(users', last'.conn).username = Trim(last'.data.username)
                /\ emitted'[1].ev.event = "user_connected"
           ELSE /\ users' = users
                /\ OnlyErrorTo(emitted', last'.conn) ]_vars

\* C7: a message sent without a recipient is emitted as receive_message to
\* exactly the connections registered at the send.
C7_BroadcastToRegistered ==
    (LastSendFromUser /\ ~TruthyId(last.data, "recipientId"))
    => ( /\ emitted # <<>>
         /\ emitted[1].ev.event = "receive_message"
         /\ emitted[1].to = MapKeys(users)
         /\ \A i \in DOMAIN emitted :
              emitted[i].ev.event = "receive_message" => i = 1 )

\* C8: when a registered user disconnects the registry shrinks by one and one
\* user_disconnected naming the user, with the new count, goes to all the
\* remaining connections; a send_message from a closed connection ends in an
\* error and leaves messageHistory alone.
C8_DisconnectUnregisters ==
    [][ /\ (last'.handler = "disconnect" /\ MapHas(users, last'.conn))
           => ( /\ MapSize(users') = MapSize(users) - 1
                /\ ~MapHas(users', last'.conn)
                /\ Len(emitted') = 1
                /\ emitted'[1].to = OpenIn(sockets')
                /\ emitted'[1].ev.event = "user_disconnected"
                /\ emitted'[1].ev.userId = last'.conn
                /\ emitted'[1].ev.username = MapGet(users, last'.conn).username
                /\ emitted'[1].ev.totalUsers = MapSize(users') )
        /\ (last'.handler = "send_message" /\ sockets[last'.conn] = "closed")
           => ( /\ OnlyErrorTo(emitted', last'.conn)
                /\ messageHistory' = messageHistory ) ]_vars

C8_Witness ==
    /\ last.handler = "disconnect"
    /\ emitted # <<>>
    /\ emitted[1].ev.event = "user_disconnected"
    /\ Cardinality(emitted[1].to) = 2
    /\ emitted[1].ev.totalUsers = 1

\* C9: the sender name of a created message is the name the registry holds for
\* the sending connection at the send, whatever the payload says.
C9_SenderNameFromRegistry ==
    LastSendFromUser
    => ( /\ messageHistory # <<>>
         /\ messageHistory[Len(messageHistory)].sender.username
              = MapGet(users, last.conn).username )

\* C10: a send_message from a registered sender without encryptedMessage is
\* rejected: one error to the sender alone, nothing appended to
\* messageHistory, no receive_message.
C10_MissingFieldRejected ==
    [][ ( /\ last'.handler = "send_message"
          /\ MapHas(users, last'.conn)
          /\ ~Has(last'.data, "encryptedMessage") )
        => ( /\ OnlyErrorTo(emitted', last'.conn)
             /\ messageHistory' = messageHistory ) ]_vars

\* the last event was a user_login that the server accepted
LastLoginAccepted == last.handler = "user_login" /\ ~LoginRejected(last.data)

\* the positions of `out` that carry the event named ev
Carrying(out, ev) == {i \in DOMAIN out : out[i].ev.event = ev}

\* C11: every error event goes to the connection whose inbound event caused
\* it, and to no other connection, whatever was joined, sent, typed or
\* disconnected before.
C11_ErrorOnlyToCause ==
    \A i \in Carrying(emitted, "error") : emitted[i].to = {last.conn}

\* an error went out while two other connections were open
C11_Witness ==
    /\ Carrying(emitted, "error") # {}
    /\ Cardinality(Open \ {last.conn}) >= 2
    /\ users # <<>>

\* C12 as stated: an accepted user_login announces the new user with one
\* user_connected event that goes to every other open connection and not to
\* the joining connection.
C12_JoinAnnouncedToOthersOnly ==
    LastLoginAccepted =>
        /\ Cardinality(Carrying(emitted, "user_connected")) = 1
        /\ \A i \in Carrying(emitted, "user_connected") :
              /\ emitted[i].ev.userId = last.conn
              /\ emitted[i].to = Open \ {last.conn}

\* C12 amended: an accepted user_login announces the new user with one
\* user_connected event that goes to every open connection, the joining
\* connection included.
C12_JoinAnnouncedToAll ==
    LastLoginAccepted =>
        /\ Cardinality(Carrying(emitted, "user_connected")) = 1
        /\ \A i \in Carrying(emitted, "user_connected") :
              /\ emitted[i].ev.userId = last.conn
              /\ emitted[i].to = Open
              /\ last.conn \in emitted[i].to

\* a join was accepted while two other connections were open
C12_Witness ==
    /\ LastLoginAccepted
    /\ Cardinality(Open \ {last.conn}) >= 2
    /\ Carrying(emitted, "user_connected") # {}

\* C13: an accepted user_login sends online_users and message_history to the
\* joining connection alone, and online_users lists exactly the registered
\* users at that moment: one entry per key of users, the new user included.
C13_JoinSnapshotToJoiner ==
    LastLoginAccepted =>
        /\ Cardinality(Carrying(emitted, "online_users")) = 1
        /\ Cardinality(Carrying(emitted, "message_history")) = 1
        /\ \A i \in Carrying(emitted, "online_users") \cup
                     Carrying(emitted, "message_history") :
              emitted[i].to = {last.conn}
        /\ \A i \in Carrying(emitted, "online_users") :
              LET list == emitted[i].ev.users
              IN  /\ {list[k].id : k \in DOMAIN list} = MapKeys(users)
                  /\ Len(list) = Cardinality(MapKeys(users))
                  /\ last.conn \in {list[k].id : k \in DOMAIN list}
                  /\ \A k \in DOMAIN list :
                        list[k].username = MapGet(users, list[k].id).username

\* a second user joined while a third connection, not joined, was open
C13_Witness ==
    /\ LastLoginAccepted
    /\ Cardinality(MapKeys(users)) = 2
    /\ Open \ MapKeys(users) # {}
    /\ Carrying(emitted, "online_users") # {}

\* C14: the message_history sent on an accepted user_login is the last
\* min(ReplayLimit, length) entries of messageHistory, oldest first, and the
\* join leaves messageHistory as it was.
C14_ReplayIsRecentTail ==
    [][ (last'.handler = "user_login" /\ ~LoginRejected(last'.data))
        => /\ messageHistory' = messageHistory
           /\ Cardinality(Carrying(emitted', "message_history")) = 1
           /\ \A i \in Carrying(emitted', "message_history") :
                 LET replay == emitted'[i].ev.messages
                     n == IF Len(messageHistory) < ReplayLimit
                          THEN Len(messageHistory) ELSE ReplayLimit
                 IN  /\ Len(replay) = n
                     /\ \A k \in 1..n :
                           replay[k] = messageHistory[Len(messageHistory) - n + k] ]_vars

\* a join when the history was full and had evicted: the replay is shorter
\* than the history and ends with its newest entry
C14_Witness ==
    /\ LastLoginAccepted
    /\ Len(messageHistory) = HistoryCap
    /\ messageHistory[1].id > 1
    /\ \E i \in Carrying(emitted, "message_history") :
          /\ Len(emitted[i].ev.messages) = ReplayLimit
          /\ emitted[i].ev.messages[ReplayLimit] = messageHistory[HistoryCap]

\* C18: when a registered user's latest typing signal was a user_typing and
\* the user then disconnects, the disconnect emits a user_stopped_typing for
\* that user to the connections that remain (here: the disconnect follows
\* the user_typing at once, and a connection that saw the user_typing is
\* still open).
C18_DisconnectStopsTyping ==
    [][ ( /\ last.handler = "user_typing"
          /\ MapHas(users, last.conn)
          /\ last'.handler = "disconnect"
          /\ last'.conn = last.conn
          /\ \E i \in Carrying(emitted, "user_typing") :
                emitted[i].to \cap OpenIn(sockets') # {} )
        => \E i \in Carrying(emitted', "user_stopped_typing") :
              /\ emitted'[i].ev.userId = last.conn
              /\ emitted'[i].to = OpenIn(sockets') ]_vars

\* C19: the Message a send creates carries the type 'broadcast' when the
\* payload names no recipient and 'direct' when it names one.
C19_TypeFollowsRecipient ==
    LastSendFromUser =>
        messageHistory[Len(messageHistory)].type =
            IF TruthyId(last.data, "recipientId") THEN "direct" ELSE "broadcast"

\* a user of the whatsapp-clone server: the connection joined with a name
WaRegistered(c) == MapHas(waUsers, c) /\ MapGet(waUsers, c) # <<>>

\* C15: in either server, the disconnect of a connection that never
\* completed a join changes neither the registry, nor the session map, nor
\* messageHistory, and emits nothing: no user_disconnected, no user_left, no
\* user_count.
C15_DisconnectUnjoinedNoop ==
    [][ ( /\ last'.handler = "disconnect"
          /\ ~MapHas(users, last'.conn)
          /\ ~MapHas(userSessions, last'.conn)
          /\ ~MapHas(waUsers, last'.conn) )
        => ( /\ users' = users
             /\ userSessions' = userSessions
             /\ messageHistory' = messageHistory
             /\ waUsers' = waUsers
             /\ emitted' = <<>> ) ]_vars

\* in the whatsapp-clone server, a connection that never joined disconnected
\* while a user was registered and another connection was open
C15_Witness ==
    /\ variant = "whatsapp-clone"
    /\ last.handler = "disconnect"
    /\ ~MapHas(waUsers, last.conn)
    /\ emitted = <<>>
    /\ \E c \in Open : WaRegistered(c)

\* the same in the chat-app server
C15_WitnessChatApp ==
    /\ variant = "chat-app"
    /\ last.handler = "disconnect"
    /\ emitted = <<>>
    /\ \E c \in Open : MapHas(users, c)

\* C16: a typing signal from a registered user emits one user_typing naming
\* that user to every other open connection and none to the sender; a typing
\* signal from a connection with no registered user emits nothing and
\* changes no state.
C16_TypingRelayed ==
    [][ /\ last'.handler = "user_typing" =>
             IF MapHas(users, last'.conn)
             THEN emitted' =
                    << [to |-> Open \ {last'.conn},
                        ev |-> [event |-> "user_typing", userId |-> last'.conn,
                                username |-> MapGet(users, last'.conn).username]] >>
             ELSE /\ emitted' = <<>>
                  /\ UNCHANGED <<sockets, users, userSessions, messageHistory, waUsers>>
        /\ last'.handler = "typing" =>
             IF WaRegistered(last'.conn)
             THEN emitted' =
                    << [to |-> Open \ {last'.conn},
                        ev |-> [event |-> "user_typing",
                                username |-> MapGet(waUsers, last'.conn)]] >>
             ELSE /\ emitted' = <<>>
                  /\ UNCHANGED <<sockets, users, userSessions, messageHistory, waUsers>>
      ]_vars

\* a registered user typed while two other connections were open
C16_Witness ==
    /\ last.handler = "typing"
    /\ WaRegistered(last.conn)
    /\ Cardinality(Open \ {last.conn}) >= 2
    /\ Len(emitted) = 1

\* the same in the chat-app server
C16_WitnessChatApp ==
    /\ last.handler = "user_typing"
    /\ MapHas(users, last.conn)
    /\ Cardinality(Open \ {last.conn}) >= 2
    /\ Len(emitted) = 1

\* the chat-app half of C17
StoppedTypingRelayed ==
    last.handler = "user_stopped_typing" =>
        IF MapHas(users, last.conn)
        THEN emitted = << [to |-> Open \ {last.conn},
                           ev |-> [event |-> "user_stopped_typing",
                                   userId |-> last.conn]] >>
        ELSE emitted = <<>>

\* the whatsapp-clone half of C17
WaStopTypingRelayed ==
    last.handler = "stop_typing" =>
        IF WaRegistered(last.conn)
        THEN /\ Len(emitted) = 1
             /\ emitted[1].to = Open \ {last.conn}
             /\ TruthyName(emitted[1].ev, "username")
             /\ emitted[1].ev.username = MapGet(waUsers, last.conn)
        ELSE \A i \in DOMAIN emitted : emitted[i].to = {}

\* C17: in either server, a stop-typing signal from a connection with no
\* registered user reaches no connection, and one from a registered user
\* emits one typing-stopped event that identifies that user to every other
\* open connection.
C17_StopTypingRelayed == StoppedTypingRelayed /\ WaStopTypingRelayed

IsReceive(e) == e.event = "receive_message"

\* the messages a watched connection received live, in the order it got them
Received(c) == SelectSeq(inbox[c], IsReceive)

\* ids are the clock value at which the send was processed
InProcessingOrder(ids) ==
    \A i, j \in DOMAIN ids : i < j => ids[i] < ids[j]

\* C20: however the sends of the registered senders interleave,
\* messageHistory holds the messages in the order the server processed them,
\* and every connection gets its receive_message events in that same order,
\* each carrying the message as stored; so two messages of one sender are
\* never swapped.
C20_OrderIsProcessingOrder ==
    /\ InProcessingOrder([i \in DOMAIN messageHistory |-> messageHistory[i].id])
    /\ \A c \in DOMAIN inbox :
          /\ InProcessingOrder([i \in DOMAIN Received(c) |-> Received(c)[i].msg.id])
          /\ \A i \in DOMAIN Received(c) :
                \E k \in DOMAIN messageHistory : messageHistory[k] = Received(c)[i].msg
          /\ \A i, j \in DOMAIN Received(c) :
                ( /\ i < j
                  /\ Received(c)[i].msg.sender.id = Received(c)[j].msg.sender.id )
                => \E k, l \in DOMAIN messageHistory :
                      /\ k < l
                      /\ messageHistory[k] = Received(c)[i].msg
                      /\ messageHistory[l] = Received(c)[j].msg

\* one connection received three messages, two of one sender with one of
\* another sender between them
C20_Witness ==
    \E c \in DOMAIN inbox :
        /\ Len(Received(c)) = 3
        /\ Received(c)[1].msg.sender.id = Received(c)[3].msg.sender.id
        /\ Received(c)[1].msg.sender.id # Received(c)[2].msg.sender.id

\* the user_disconnected events about user x that watched connection c got
LeavesSeen(c, x) ==
    {i \in DOMAIN inbox[c] :
        inbox[c][i].event = "user_disconnected" /\ inbox[c][i].userId = x}

\* C21: however joins, sends and disconnects interleave, a repeated
\* disconnect and a send after the disconnect of its connection included:
\* a closed connection has no User and no session (so a User is removed at
\* most once), a disconnect emits at most one user_disconnected, a repeated
\* disconnect emits none and removes nothing, no connection ever gets two
\* user_disconnected for one connection id, and a send from a closed
\* connection ends in one error to that connection and leaves messageHistory
\* as it was.
C21_CleanupOnce ==
    [][ /\ \A c \in DOMAIN sockets' :
             sockets'[c] = "closed" =>
                 ~MapHas(users', c) /\ ~MapHas(userSessions', c)
        /\ \A c \in DOMAIN inbox', x \in DOMAIN sockets' :
             Cardinality({i \in DOMAIN inbox'[c] :
                            /\ inbox'[c][i].event = "user_disconnected"
                            /\ inbox'[c][i].userId = x}) <= 1
        /\ last'.handler = "disconnect" =>
             /\ Cardinality(Carrying(emitted', "user_disconnected")) <= 1
             /\ \A i \in Carrying(emitted', "user_disconnected") :
                   emitted'[i].ev.userId = last'.conn
             /\ sockets[last'.conn] = "closed" =>
                   /\ emitted' = <<>>
                   /\ users' = users
                   /\ userSessions' = userSessions
        /\ (last'.handler = "send_message" /\ sockets[last'.conn] = "closed") =>
             /\ OnlyErrorTo(emitted', last'.conn)
             /\ messageHistory' = messageHistory
      ]_vars

\* the disconnect of a user who had left fired again: it emitted nothing,
\* and a connection that is still open has seen the one user_disconnected
C21_Witness ==
    /\ last.handler = "disconnect"
    /\ emitted = <<>>
    /\ \E c \in DOMAIN inbox :
          /\ Cardinality(LeavesSeen(c, last.conn)) = 1
          /\ sockets[c] = "open"

\* the socket of a user who had left sent a message
C21_WitnessSend ==
    /\ last.handler = "send_message"
    /\ sockets[last.conn] = "closed"
    /\ emitted # <<>>
    /\ \E c \in DOMAIN inbox :
          /\ Cardinality(LeavesSeen(c, last.conn)) = 1
          /\ sockets[c] = "open"

\* what entry e of an inbox says about connection x
IsJoinOf(e, x) == e.event = "user_connected" /\ e.userId = x

IsLeaveOf(e, x) == e.event = "user_disconnected" /\ e.userId = x

IsMessageOf(e, x) == e.event = "receive_message" /\ e.msg.sender.id = x

\* C22: what a connection c observes about another connection x while c is
\* connected is in the order join, messages, leave: no receive_message with
\* sender x comes after a user_disconnected for x, and when x was not yet
\* registered at the moment c connected, every receive_message with sender x
\* and every user_disconnected for x comes after a user_connected for x.
C22_SessionOrderObserved ==
    \A c \in DOMAIN inbox : \A x \in Created \ {c} :
        \A j \in DOMAIN inbox[c] :
            /\ IsMessageOf(inbox[c][j], x) =>
                  /\ \A i \in 1..(j - 1) : ~IsLeaveOf(inbox[c][i], x)
                  /\ x \notin inbox[c][1].registered =>
                        \E i \in 1..(j - 1) : IsJoinOf(inbox[c][i], x)
            /\ (IsLeaveOf(inbox[c][j], x) /\ x \notin inbox[c][1].registered) =>
                  \E i \in 1..(j - 1) : IsJoinOf(inbox[c][i], x)

\* a connection saw another one join, send a message and leave, and the
\* socket that left then sent once more
C22_Witness ==
    /\ last.handler = "send_message"
    /\ sockets[last.conn] = "closed"
    /\ \E c \in DOMAIN inbox \ {last.conn} :
          /\ sockets[c] = "open"
          /\ \E i, j, k \in DOMAIN inbox[c] :
                /\ i < j /\ j < k
                /\ IsJoinOf(inbox[c][i], last.conn)
                /\ IsMessageOf(inbox[c][j], last.conn)
                /\ IsLeaveOf(inbox[c][k], last.conn)

\* C23: a joined connection gets every receive_message for a message that
\* another user sent after the join was processed only after an online_users
\* and a message_history of its own, and no message of a message_history
\* replay comes again as a later receive_message to the same connection.
C23_SnapshotBeforeLive ==
    \A c \in DOMAIN inbox : \A j \in DOMAIN inbox[c] :
        inbox[c][j].event = "receive_message" =>
            /\ \A i \in 1..(j - 1) :
                  inbox[c][i].event = "message_history" =>
                      \A k \in DOMAIN inbox[c][i].messages :
                          inbox[c][i].messages[k].id # inbox[c][j].msg.id
            /\ ( /\ MapHas(users, c)
                 /\ inbox[c][j].msg.sender.id # c
                 /\ inbox[c][j].msg.id > MapGet(users, c).connectedAt )
               => /\ \E i \in 1..(j - 1) : inbox[c][i].event = "online_users"
                  /\ \E i \in 1..(j - 1) : inbox[c][i].event = "message_history"

\* a connection joined, got a replay with a message in it, and then got a
\* message that another user sent afterwards
C23_Witness ==
    \E c \in DOMAIN inbox : \E i, j \in DOMAIN inbox[c] :
        /\ MapHas(users, c)
        /\ i < j
        /\ inbox[c][i].event = "message_history"
        /\ inbox[c][i].messages # <<>>
        /\ inbox[c][j].event = "receive_message"
        /\ inbox[c][j].msg.sender.id # c
        /\ inbox[c][j].msg.id > MapGet(users, c).connectedAt

\* the connections a send is addressed to: the recipient named, or everyone
TargetOf(data) ==
    IF TruthyId(data, "recipientId") THEN {data.recipientId} ELSE Open

\* C24: a send_message from a registered sender emits to the sender exactly
\* one of message_sent and error, and nothing of either kind to anyone else;
\* message_sent is emitted exactly when one receive_message went to the
\* target of the send (the recipient named, or every open connection); the
\* messageId acknowledged is the id of the message delivered, which is the
\* message stored last in messageHistory.
C24_AckIffDelivered ==
    (last.handler = "send_message" /\ MapHas(users, last.conn)) =>
        LET acks == Carrying(emitted, "message_sent")
            errs == Carrying(emitted, "error")
            recvs == Carrying(emitted, "receive_message")
            stored == messageHistory[Len(messageHistory)]
        IN  /\ Cardinality(acks \cup errs) = 1
            /\ \A i \in acks \cup errs : emitted[i].to = {last.conn}
            /\ (acks # {}) <=> (recvs # {})
            /\ Cardinality(recvs) <= 1
            /\ \A i \in recvs :
                  /\ emitted[i].to = TargetOf(last.data)
                  /\ emitted[i].to # {}
                  /\ emitted[i].ev.msg = stored
                  /\ \A k \in acks : emitted[k].ev.messageId = stored.id

\* a direct message to another registered user was delivered and acknowledged
C24_Witness ==
    /\ last.handler = "send_message"
    /\ MapHas(users, last.conn)
    /\ TruthyId(last.data, "recipientId")
    /\ last.data.recipientId # last.conn
    /\ Carrying(emitted, "message_sent") # {}
    /\ \E i \in Carrying(emitted, "receive_message") :
          emitted[i].to = {last.data.recipientId}

\* a send to a recipient that is not registered ended in the error alone
C24_WitnessError ==
    /\ last.handler = "send_message"
    /\ MapHas(users, last.conn)
    /\ Carrying(emitted, "error") # {}
    /\ Carrying(emitted, "receive_message") = {}

====
